---- MODULE Spec2Model ----
(***************************************************************************)
(* Model of the pattern demonstrations of the TypeScript bootcamp:         *)
(*   - module-06-patterns/05-repository.ts  (repositories, UserService)    *)
(*   - module-06-patterns/01-singleton.ts   (DatabaseConnection)           *)
(*   - module-04-classes/01-classes-basics.ts (BankAccount)                *)
(*   - module-06-patterns/03-observer.ts    (NewsAgency)                   *)
(*   - module-06-patterns/04-strategy.ts    (ShoppingCart)                 *)
(*   - module-01-javascript/03-async.ts     (fetchData and its callers)    *)
(*   - the Promises guide                   (fetchWithRetry,               *)
(*                                           processWithLimit)             *)
(*   - the functions module                 (createCounter)                *)
(*   - the Express app                      (users store and its routes)   *)
(*   - module-03-advanced-types/02-generics.ts (Stack)                     *)
(* Each example is an independent object; each has its own specification   *)
(* over its own variables, the other examples' variables staying idle.     *)
(***************************************************************************)
EXTENDS Integers, Sequences, FiniteSets, TLC

VARIABLES
    \* 05-repository.ts, sequential use: the two repositories side by side
    memUsers,     \* InMemoryUserRepository.users : User[]
    memNextId,    \* InMemoryUserRepository.nextId
    dbUsers,      \* DatabaseUserRepository.users : Map<number, User>, entries in insertion order
    dbNextId,     \* DatabaseUserRepository.nextId
    lastCall,     \* the operation issued last (to both repositories)
    memResult,    \* what it returned / threw on the in-memory repository
    dbResult,     \* what it returned / threw on the database repository
    repoCalls,    \* repository methods the last operation invoked, in order
    \* 05-repository.ts, concurrent use of one DatabaseUserRepository
    cUsers,       \* its users map
    cNextId,      \* its nextId
    cCalls,       \* the calls started so far, in start order
    cDone,        \* indices of the calls whose promise has settled, in settling order
    cResults,     \* what each settled call returned / threw
    \* 01-singleton.ts
    instance,     \* DatabaseConnection.instance: 0 for null, else the object
    connStrings,  \* connectionString of every DatabaseConnection constructed so far
    handedOut,    \* the objects getInstance has returned so far
    sCall,        \* the call made last
    sResult,      \* what it returned / threw
    \* 01-classes-basics.ts
    balance,      \* BankAccount.balance
    bCall,        \* the call made last
    bResult,      \* what it returned / threw
    \* 03-observer.ts
    observers,    \* NewsAgency.observers
    news,         \* NewsAgency.news
    oCall,        \* the call made last
    notified,     \* the observers whose update the last call invoked, in order
    removed,      \* history: the observers unsubscribed and not subscribed since
    \* 04-strategy.ts
    items,            \* ShoppingCart.items
    paymentStrategy,  \* ShoppingCart.paymentStrategy: "null" or the strategy set last
    cartCall,         \* the call made last
    cartResult,       \* what it returned / threw
    payments,         \* the pay calls the last call made, in order
    added,            \* history: the price of every item ever added, in order
    paidUpTo,         \* history: how many of them were in a checkout that returned
    everPaid,         \* history: the sum of all amounts ever passed to pay
    \* 03-async.ts
    fetches,       \* the promises of the fetchData calls made directly
    multiFetches,  \* the promises of the fetchData calls fetchMultiple made
    multiple,      \* the promise fetchMultiple returned (Promise.all's)
    seqFetches,    \* the promises of the fetchData calls fetchSequential made
    sequential,    \* fetchSequential: its promise, its i and its results
    \* Promises guide, Pattern 1: Retry Logic
    retries,       \* the frames of the fetchWithRetry calls made, in call order
    \* Promises guide, Pattern 4: Parallel with Limit
    limited,       \* the frame of the processWithLimit call
    procCalls,     \* per item: the state of its processor call, and how many were made
    \* createCounter (functions module)
    counters,      \* the `count` captured by each counter created, in creation order
    ctrCalls,      \* history: how many times each counter has been called
    ctrCall,       \* the call made last
    ctrResult,     \* what it returned
    \* Express user store
    appUsers,      \* the users array of the app
    httpReq,       \* the request handled last
    httpRes,       \* the response sent to it
    \* 02-generics.ts
    stack,         \* Stack.items
    stackLog,      \* history: the push and pop calls made, in order
    stackCall,     \* the call made last
    stackResult    \* what it returned

repoVars == <<memUsers, memNextId, dbUsers, dbNextId, lastCall, memResult, dbResult, repoCalls>>
concVars == <<cUsers, cNextId, cCalls, cDone, cResults>>
singletonVars == <<instance, connStrings, handedOut, sCall, sResult>>
bankVars == <<balance, bCall, bResult>>
observerVars == <<observers, news, oCall, notified, removed>>
cartVars == <<items, paymentStrategy, cartCall, cartResult, payments, added, paidUpTo, everPaid>>
asyncVars == <<fetches, multiFetches, multiple, seqFetches, sequential>>
retryVars == <<retries>>
limitVars == <<limited, procCalls>>
counterVars == <<counters, ctrCalls, ctrCall, ctrResult>>
appVars == <<appUsers, httpReq, httpRes>>
stackVars == <<stack, stackLog, stackCall, stackResult>>

vars == <<repoVars, concVars, singletonVars, bankVars, observerVars, cartVars, asyncVars, retryVars, limitVars, counterVars, appVars, stackVars>>

\* the examples share nothing: a step of one leaves the others as they are
exceptRepo == <<concVars, singletonVars, bankVars, observerVars, cartVars, asyncVars, retryVars, limitVars, counterVars, appVars, stackVars>>
exceptConc == <<repoVars, singletonVars, bankVars, observerVars, cartVars, asyncVars, retryVars, limitVars, counterVars, appVars, stackVars>>
exceptSingleton == <<repoVars, concVars, bankVars, observerVars, cartVars, asyncVars, retryVars, limitVars, counterVars, appVars, stackVars>>
exceptBank == <<repoVars, concVars, singletonVars, observerVars, cartVars, asyncVars, retryVars, limitVars, counterVars, appVars, stackVars>>
exceptObserver == <<repoVars, concVars, singletonVars, bankVars, cartVars, asyncVars, retryVars, limitVars, counterVars, appVars, stackVars>>
exceptCart == <<repoVars, concVars, singletonVars, bankVars, observerVars, asyncVars, retryVars, limitVars, counterVars, appVars, stackVars>>
exceptAsync == <<repoVars, concVars, singletonVars, bankVars, observerVars, cartVars, retryVars, limitVars, counterVars, appVars, stackVars>>
exceptRetry == <<repoVars, concVars, singletonVars, bankVars, observerVars, cartVars, asyncVars, limitVars, counterVars, appVars, stackVars>>
exceptLimit == <<repoVars, concVars, singletonVars, bankVars, observerVars, cartVars, asyncVars, retryVars, counterVars, appVars, stackVars>>
exceptCounter == <<repoVars, concVars, singletonVars, bankVars, observerVars, cartVars, asyncVars, retryVars, limitVars, appVars, stackVars>>
exceptApp == <<repoVars, concVars, singletonVars, bankVars, observerVars, cartVars, asyncVars, retryVars, limitVars, counterVars, stackVars>>
exceptStack == <<repoVars, concVars, singletonVars, bankVars, observerVars, cartVars, asyncVars, retryVars, limitVars, counterVars, appVars>>

----------------------------------------------------------------------------
(* Bounds and input sets *)

\* largest id handed out by create and largest id used as an argument
MaxId == 2

Ids == 1..MaxId

Names == {"Alice", "Bob"}

\* strings as sequences of characters: '', 'a', '@', 'a@' (what UserService is given)
Emails == {<< >>, <<"a">>, <<"@">>, <<"a", "@">>}

\* the email given to the repositories' create directly: 'a@'
RepoEmail == <<"a", "@">>

\* Partial<User>: any subset of the fields; here no field, a new id (the
\* largest one), a new name, or a new email
Updates ==
    {[f \in {} |-> 0], [id |-> MaxId], [email |-> <<"@">>]}
      \cup {[name |-> n] : n \in Names}

----------------------------------------------------------------------------
(* Values *)

User(i, n, e) == [id |-> i, name |-> n, email |-> e]

NoUser == [id |-> 0, name |-> "", email |-> << >>]

\* results of a call: a user, null, a list, a boolean, or a thrown Error
RUser(u)    == [kind |-> "user",  user |-> u,      users |-> << >>, value |-> FALSE, id |-> 0]
RNull       == [kind |-> "null",  user |-> NoUser, users |-> << >>, value |-> FALSE, id |-> 0]
RList(us)   == [kind |-> "list",  user |-> NoUser, users |-> us,    value |-> FALSE, id |-> 0]
RBool(b)    == [kind |-> "bool",  user |-> NoUser, users |-> << >>, value |-> b,     id |-> 0]
\* Error(`User with id ${id} not found`)
RNotFound(i) == [kind |-> "notFound", user |-> NoUser, users |-> << >>, value |-> FALSE, id |-> i]
\* Error('Invalid email address')
RInvalidEmail == [kind |-> "invalidEmail", user |-> NoUser, users |-> << >>, value |-> FALSE, id |-> 0]
RNone       == [kind |-> "none",  user |-> NoUser, users |-> << >>, value |-> FALSE, id |-> 0]

\* { ...user, ...updates }
Merge(u, upd) ==
    [f \in {"id", "name", "email"} |-> IF f \in DOMAIN upd THEN upd[f] ELSE u[f]]

\* Array.prototype.findIndex((u) => u.id === id): first match, 0 for -1
FindIndex(users, i) ==
    IF \E k \in 1..Len(users) : users[k].id = i
    THEN CHOOSE k \in 1..Len(users) :
            /\ users[k].id = i
            /\ \A j \in 1..(k - 1) : users[j].id # i
    ELSE 0

\* Array.prototype.splice(index, 1)
Splice(s, k) == [j \in 1..(Len(s) - 1) |-> IF j < k THEN s[j] ELSE s[j + 1]]

----------------------------------------------------------------------------
(* InMemoryUserRepository: each method maps (users, nextId) and its        *)
(* arguments to the new (users, nextId) and the result                     *)

Out(us, nx, r) == [users |-> us, nextId |-> nx, result |-> r]

MemFindById(users, nextId, i) ==
    LET k == FindIndex(users, i)
    IN  Out(users, nextId, IF k = 0 THEN RNull ELSE RUser(users[k]))

MemFindAll(users, nextId) == Out(users, nextId, RList(users))

MemCreate(users, nextId, n, e) ==
    LET newUser == User(nextId, n, e)
    IN  Out(Append(users, newUser), nextId + 1, RUser(newUser))

MemUpdate(users, nextId, i, upd) ==
    LET index == FindIndex(users, i)
    IN  IF index = 0
        THEN Out(users, nextId, RNotFound(i))
        ELSE LET merged == Merge(users[index], upd)
             IN  Out([users EXCEPT ![index] = merged], nextId, RUser(merged))

\* delete without the index === -1 check: splice(-1, 1) removes the last user
MemDeleteUnchecked(users, nextId, i) ==
    LET index == FindIndex(users, i)
    IN  IF index = 0
        THEN Out(IF Len(users) > 0 THEN Splice(users, Len(users)) ELSE users,
                 nextId, RBool(Len(users) > 0))
        ELSE Out(Splice(users, index), nextId, RBool(TRUE))

MemDelete(users, nextId, i) ==
    LET index == FindIndex(users, i)
    IN  IF index = 0
        THEN Out(users, nextId, RBool(FALSE))
        ELSE Out(Splice(users, index), nextId, RBool(TRUE))

----------------------------------------------------------------------------
(* DatabaseUserRepository over a Map<number, User>: a sequence of          *)
(* [key, val] entries in insertion order                                   *)

Entry(k, v) == [key |-> k, val |-> v]

MapIndex(m, k) ==
    IF \E j \in 1..Len(m) : m[j].key = k
    THEN CHOOSE j \in 1..Len(m) : m[j].key = k
    ELSE 0

MapHas(m, k) == MapIndex(m, k) # 0

\* Map.prototype.set: an existing key keeps its position
MapSet(m, k, v) ==
    IF MapHas(m, k)
    THEN [m EXCEPT ![MapIndex(m, k)] = Entry(k, v)]
    ELSE Append(m, Entry(k, v))

\* Map.prototype.delete (the map afterwards; it returns MapHas before)
MapDelete(m, k) ==
    IF MapHas(m, k) THEN Splice(m, MapIndex(m, k)) ELSE m

\* Array.from(map.values())
MapValues(m) == [j \in 1..Len(m) |-> m[j].val]

DbFindById(users, nextId, i) ==
    Out(users, nextId,
        IF MapHas(users, i) THEN RUser(users[MapIndex(users, i)].val) ELSE RNull)

DbFindAll(users, nextId) == Out(users, nextId, RList(MapValues(users)))

\* create with `id: this.nextId` in place of `id: this.nextId++`
DbCreateSameId(users, nextId, n, e) ==
    LET newUser == User(nextId, n, e)
    IN  Out(MapSet(users, newUser.id, newUser), nextId, RUser(newUser))

DbCreate(users, nextId, n, e) ==
    LET newUser == User(nextId, n, e)
    IN  Out(MapSet(users, newUser.id, newUser), nextId + 1, RUser(newUser))

DbUpdate(users, nextId, i, upd) ==
    IF ~MapHas(users, i)
    THEN Out(users, nextId, RNotFound(i))
    ELSE LET updated == Merge(users[MapIndex(users, i)].val, upd)
         IN  Out(MapSet(users, i, updated), nextId, RUser(updated))

DbDelete(users, nextId, i) ==
    Out(MapDelete(users, i), nextId, RBool(MapHas(users, i)))

----------------------------------------------------------------------------
(* UserService *)

\* String.prototype.includes('@')
IncludesAt(s) == \E k \in 1..Len(s) : s[k] = "@"

\* the repository implementations behind the UserRepository interface
RepoCreate(impl, users, nextId, n, e) ==
    IF impl = "mem" THEN MemCreate(users, nextId, n, e) ELSE DbCreate(users, nextId, n, e)

RepoUpdate(impl, users, nextId, i, upd) ==
    IF impl = "mem" THEN MemUpdate(users, nextId, i, upd) ELSE DbUpdate(users, nextId, i, upd)

\* a service call: the repository's outcome and the repository methods invoked
Svc(o, cs) == [out |-> o, calls |-> cs]

\* createUser without the email check
CreateUserSvcUnchecked(impl, users, nextId, n, e) ==
    Svc(RepoCreate(impl, users, nextId, n, e), <<"create">>)

CreateUserSvc(impl, users, nextId, n, e) ==
    IF ~IncludesAt(e)
    THEN Svc(Out(users, nextId, RInvalidEmail), << >>)
    ELSE Svc(RepoCreate(impl, users, nextId, n, e), <<"create">>)

UpdateUserEmailSvc(impl, users, nextId, i, e) ==
    IF ~IncludesAt(e)
    THEN Svc(Out(users, nextId, RInvalidEmail), << >>)
    ELSE Svc(RepoUpdate(impl, users, nextId, i, [email |-> e]), <<"update">>)

----------------------------------------------------------------------------
(* Sequential use: one operation at a time, awaited, issued to a fresh     *)
(* InMemoryUserRepository and a fresh DatabaseUserRepository alike         *)

Call(o, i, n, e, upd) == [op |-> o, id |-> i, name |-> n, email |-> e, upd |-> upd]

NoUpdate == [f \in {} |-> 0]

NoCall == Call("none", 0, "", << >>, NoUpdate)

RepoInit ==
    /\ memUsers = << >>
    /\ memNextId = 1
    /\ dbUsers = << >>
    /\ dbNextId = 1
    /\ lastCall = NoCall
    /\ memResult = RNone
    /\ dbResult = RNone
    /\ repoCalls = << >>

\* both repositories take the call; cs are the repository methods it invoked
Issue(call, memOut, dbOut, cs) ==
    /\ memUsers' = memOut.users
    /\ memNextId' = memOut.nextId
    /\ memResult' = memOut.result
    /\ dbUsers' = dbOut.users
    /\ dbNextId' = dbOut.nextId
    /\ dbResult' = dbOut.result
    /\ lastCall' = call
    /\ repoCalls' = cs
    /\ UNCHANGED exceptRepo

\* ids handed out stay within MaxId
CanCreate == memNextId <= MaxId /\ dbNextId <= MaxId

FindById(i) ==
    Issue(Call("findById", i, "", << >>, NoUpdate),
          MemFindById(memUsers, memNextId, i),
          DbFindById(dbUsers, dbNextId, i), <<"findById">>)

FindAll ==
    Issue(Call("findAll", 0, "", << >>, NoUpdate),
          MemFindAll(memUsers, memNextId),
          DbFindAll(dbUsers, dbNextId), <<"findAll">>)

Create(n, e) ==
    /\ CanCreate
    /\ Issue(Call("create", 0, n, e, NoUpdate),
             MemCreate(memUsers, memNextId, n, e),
             DbCreate(dbUsers, dbNextId, n, e), <<"create">>)

Update(i, upd) ==
    Issue(Call("update", i, "", << >>, upd),
          MemUpdate(memUsers, memNextId, i, upd),
          DbUpdate(dbUsers, dbNextId, i, upd), <<"update">>)

Delete(i) ==
    Issue(Call("delete", i, "", << >>, NoUpdate),
          MemDelete(memUsers, memNextId, i),
          DbDelete(dbUsers, dbNextId, i), <<"delete">>)

CreateUser(n, e) ==
    /\ IncludesAt(e) => CanCreate
    /\ LET m == CreateUserSvc("mem", memUsers, memNextId, n, e)
           d == CreateUserSvc("db", dbUsers, dbNextId, n, e)
       IN  Issue(Call("createUser", 0, n, e, NoUpdate), m.out, d.out, m.calls)

UpdateUserEmail(i, e) ==
    LET m == UpdateUserEmailSvc("mem", memUsers, memNextId, i, e)
        d == UpdateUserEmailSvc("db", dbUsers, dbNextId, i, e)
    IN  Issue(Call("updateUserEmail", i, "", e, NoUpdate), m.out, d.out, m.calls)

GetUser(i) ==
    Issue(Call("getUser", i, "", << >>, NoUpdate),
          MemFindById(memUsers, memNextId, i),
          DbFindById(dbUsers, dbNextId, i), <<"findById">>)

GetAllUsers ==
    Issue(Call("getAllUsers", 0, "", << >>, NoUpdate),
          MemFindAll(memUsers, memNextId),
          DbFindAll(dbUsers, dbNextId), <<"findAll">>)

DeleteUser(i) ==
    Issue(Call("deleteUser", i, "", << >>, NoUpdate),
          MemDelete(memUsers, memNextId, i),
          DbDelete(dbUsers, dbNextId, i), <<"delete">>)


RepoNext ==
    \/ \E i \in Ids : FindById(i)
    \/ FindAll
    \/ \E n \in Names : Create(n, RepoEmail)
    \/ \E i \in Ids, upd \in Updates : Update(i, upd)
    \/ \E i \in Ids : Delete(i)

ServiceNext ==
    \/ \E i \in Ids : GetUser(i)
    \/ GetAllUsers
    \/ \E n \in Names, e \in Emails : CreateUser(n, e)
    \/ \E i \in Ids, e \in Emails : UpdateUserEmail(i, e)
    \/ \E i \in Ids : DeleteUser(i)

----------------------------------------------------------------------------
(* Concurrent use of one DatabaseUserRepository: calls are started without *)
(* being awaited. Every method first awaits simulateDelay(), reading and   *)
(* writing nothing before it; when its timer fires, the rest of the method *)
(* runs to completion on the single JavaScript thread. The timers may fire *)
(* in any order.                                                           *)

\* number of calls started
MaxCalls == 3

ConcIds == {1, 2}

ConcCalls ==
    {Call("create", 0, "Alice", RepoEmail, NoUpdate),
     Call("update", 1, "", << >>, [email |-> <<"@">>])}
      \cup {Call("update", i, "", << >>, [name |-> "Bob"]) : i \in ConcIds}
      \cup {Call("delete", i, "", << >>, NoUpdate) : i \in ConcIds}
      \cup {Call("findById", i, "", << >>, NoUpdate) : i \in ConcIds}

\* the part of a method after its await, on the map and nextId it finds
DbApply(call, users, nextId) ==
    CASE call.op = "create"   -> DbCreate(users, nextId, call.name, call.email)
      [] call.op = "update"   -> DbUpdate(users, nextId, call.id, call.upd)
      [] call.op = "delete"   -> DbDelete(users, nextId, call.id)
      [] call.op = "findById" -> DbFindById(users, nextId, call.id)

ConcInit ==
    /\ cUsers = << >>
    /\ cNextId = 1
    /\ cCalls = << >>
    /\ cDone = << >>
    /\ cResults = << >>

Settled(k) == \E j \in 1..Len(cDone) : cDone[j] = k

Pending(k) == k \in 1..Len(cCalls) /\ ~Settled(k)

\* a method is called: it runs up to `await this.simulateDelay()`
Start(call) ==
    /\ Len(cCalls) < MaxCalls
    /\ cCalls' = Append(cCalls, call)
    /\ cResults' = Append(cResults, RNone)
    /\ UNCHANGED <<cUsers, cNextId, cDone>>
    /\ UNCHANGED exceptConc

\* the timer of pending call k fires: the method resumes and runs to its return
Resume(k) ==
    /\ Pending(k)
    /\ LET out == DbApply(cCalls[k], cUsers, cNextId)
       IN  /\ cUsers' = out.users
           /\ cNextId' = out.nextId
           /\ cResults' = [cResults EXCEPT ![k] = out.result]
    /\ cDone' = Append(cDone, k)
    /\ UNCHANGED cCalls
    /\ UNCHANGED exceptConc

ConcNext ==
    \/ \E call \in ConcCalls : Start(call)
    \/ \E k \in 1..MaxCalls : Resume(k)

----------------------------------------------------------------------------
(* DatabaseConnection (singleton). Objects are numbered in the order they  *)
(* are constructed; 0 stands for null.                                     *)

\* number of DatabaseConnection objects constructed
MaxInstances == 3

\* the optional argument: absent, '', 'p', 'q'
Arg(g, str) == [given |-> g, str |-> str]

ConnArgs == {Arg(FALSE, << >>), Arg(TRUE, << >>), Arg(TRUE, <<"p">>), Arg(TRUE, <<"q">>)}

\* !connectionString: undefined and '' are falsy
Falsy(arg) == ~arg.given \/ Len(arg.str) = 0

SOut(inst, strs, r) == [instance |-> inst, connStrings |-> strs, result |-> r]

SReturned(obj) == [kind |-> "returned", obj |-> obj]
\* Error('Connection string required for first initialization')
SRequired == [kind |-> "stringRequired", obj |-> 0]
SVoid == [kind |-> "void", obj |-> 0]
SNone == [kind |-> "none", obj |-> 0]

\* getInstance that connects anew whenever a connection string is given
GetInstanceOpReconnect(inst, strs, arg) ==
    IF Falsy(arg)
    THEN IF inst = 0 THEN SOut(inst, strs, SRequired) ELSE SOut(inst, strs, SReturned(inst))
    ELSE SOut(Len(strs) + 1, Append(strs, arg.str), SReturned(Len(strs) + 1))

\* static getInstance(connectionString?)
GetInstanceOp(inst, strs, arg) ==
    IF inst = 0
    THEN IF Falsy(arg)
         THEN SOut(inst, strs, SRequired)
         ELSE SOut(Len(strs) + 1, Append(strs, arg.str), SReturned(Len(strs) + 1))
    ELSE SOut(inst, strs, SReturned(inst))

\* close(): an instance method, whatever object it is called on
CloseOp(inst, strs, obj) == SOut(0, strs, SVoid)

SCall(o, arg, obj) == [op |-> o, arg |-> arg, obj |-> obj]

SingletonInit ==
    /\ instance = 0
    /\ connStrings = << >>
    /\ handedOut = {}
    /\ sCall = SCall("none", Arg(FALSE, << >>), 0)
    /\ sResult = SNone

GetInstance(arg) ==
    /\ (instance = 0 /\ ~Falsy(arg)) => Len(connStrings) < MaxInstances
    /\ LET out == GetInstanceOp(instance, connStrings, arg)
       IN  /\ instance' = out.instance
           /\ connStrings' = out.connStrings
           /\ sResult' = out.result
           /\ handedOut' = IF out.result.kind = "returned"
                           THEN handedOut \cup {out.result.obj}
                           ELSE handedOut
    /\ sCall' = SCall("getInstance", arg, 0)
    /\ UNCHANGED exceptSingleton

\* close() on any reference the callers hold
Close(obj) ==
    /\ obj \in handedOut
    /\ LET out == CloseOp(instance, connStrings, obj)
       IN  /\ instance' = out.instance
           /\ connStrings' = out.connStrings
           /\ sResult' = out.result
    /\ sCall' = SCall("close", Arg(FALSE, << >>), obj)
    /\ UNCHANGED handedOut
    /\ UNCHANGED exceptSingleton

SingletonNext ==
    \/ \E arg \in ConnArgs : GetInstance(arg)
    \/ \E obj \in 1..MaxInstances : Close(obj)

----------------------------------------------------------------------------
(* BankAccount *)

\* largest amount deposited or withdrawn, largest initial balance
MaxAmount == 3

\* deposits stop once the balance would exceed this
MaxBalance == 6

Amounts == (0 - MaxAmount)..MaxAmount

InitialBalances == (0 - 1)..MaxAmount

BOut(bal, r) == [balance |-> bal, result |-> r]

BBool(b)   == [kind |-> "bool",   value |-> b,     number |-> 0]
BNumber(n) == [kind |-> "number", value |-> FALSE, number |-> n]
BVoid      == [kind |-> "void",   value |-> FALSE, number |-> 0]
BNone      == [kind |-> "none",   value |-> FALSE, number |-> 0]

\* deposit(amount): void
DepositOp(bal, amount) ==
    IF amount > 0 THEN BOut(bal + amount, BVoid) ELSE BOut(bal, BVoid)

\* withdraw without the amount > 0 check
WithdrawOpAnySign(bal, amount) ==
    IF amount <= bal
    THEN BOut(bal - amount, BBool(TRUE))
    ELSE BOut(bal, BBool(FALSE))

\* withdraw with amount < balance in place of amount <= balance
WithdrawOpStrict(bal, amount) ==
    IF amount > 0 /\ amount < bal
    THEN BOut(bal - amount, BBool(TRUE))
    ELSE BOut(bal, BBool(FALSE))

\* withdraw(amount): boolean
WithdrawOp(bal, amount) ==
    IF amount > 0 /\ amount <= bal
    THEN BOut(bal - amount, BBool(TRUE))
    ELSE BOut(bal, BBool(FALSE))

\* getBalance(): number
GetBalanceOp(bal) == BOut(bal, BNumber(bal))

BCall(o, a) == [op |-> o, amount |-> a]

\* new BankAccount(owner, accountNumber, initialBalance)
BankNew(initialBalance) ==
    /\ balance = initialBalance
    /\ bCall = BCall("none", 0)
    /\ bResult = BNone

BankInit == \E b \in InitialBalances : BankNew(b)

BankDo(call, out) ==
    /\ balance' = out.balance
    /\ bResult' = out.result
    /\ bCall' = call
    /\ UNCHANGED exceptBank

Deposit(amount) ==
    /\ balance + amount <= MaxBalance
    /\ BankDo(BCall("deposit", amount), DepositOp(balance, amount))

Withdraw(amount) == BankDo(BCall("withdraw", amount), WithdrawOp(balance, amount))

GetBalance == BankDo(BCall("getBalance", 0), GetBalanceOp(balance))

BankNext ==
    \/ \E a \in Amounts : Deposit(a)
    \/ \E a \in Amounts : Withdraw(a)
    \/ GetBalance

----------------------------------------------------------------------------
(* NewsAgency (observer). What an observer's update does to the agency is  *)
(* up to the observer: nothing (NewsChannel), or a subscribe / unsubscribe *)
(* call on the agency that is notifying it.                                *)

\* length of the observers array
MaxObservers == 3

ObserverIds == {"cnn", "bbc"}

NewsItems == {"breaking", "update"}

Reaction(k, t) == [kind |-> k, target |-> t]

Reactions ==
    {Reaction("none", "cnn")}
      \cup {Reaction("unsubscribe", t) : t \in ObserverIds}
      \cup {Reaction("subscribe", t) : t \in ObserverIds}

\* observers.push(observer)
SubscribeOp(obs, o) == Append(obs, o)

\* Array.prototype.indexOf: first occurrence, 0 for -1
IndexOf(obs, o) ==
    IF \E k \in 1..Len(obs) : obs[k] = o
    THEN CHOOSE k \in 1..Len(obs) : obs[k] = o /\ \A j \in 1..(k - 1) : obs[j] # o
    ELSE 0

\* unsubscribe(observer)
UnsubscribeOp(obs, o) ==
    LET index == IndexOf(obs, o)
    IN  IF index > 0 THEN Splice(obs, index) ELSE obs

\* observer.update(data), as far as the agency is concerned
React(obs, r) ==
    CASE r.kind = "none"        -> obs
      [] r.kind = "unsubscribe" -> UnsubscribeOp(obs, r.target)
      [] r.kind = "subscribe"   -> SubscribeOp(obs, r.target)

NOut(obs, log) == [observers |-> obs, notified |-> log]

\* Array.prototype.forEach: the length is read once, before the first call;
\* index k is visited if the array still has it when its turn comes
RECURSIVE ForEach(_, _, _, _, _)
ForEach(obs, k, len, react, log) ==
    IF k > len
    THEN NOut(obs, log)
    ELSE IF k > Len(obs)
         THEN ForEach(obs, k + 1, len, react, log)
         ELSE ForEach(React(obs, react[obs[k]]), k + 1, len, react, Append(log, obs[k]))

\* notify(data)
NotifyOp(obs, react) == ForEach(obs, 1, Len(obs), react, << >>)

OCall(o, ob, n, react) == [op |-> o, observer |-> ob, news |-> n, react |-> react]

NoReact == [o \in ObserverIds |-> Reaction("none", "cnn")]

\* the history of unsubscribe and subscribe calls made by the observers whose
\* update ran, in the order they ran
RECURSIVE RemovedAfter(_, _, _)
RemovedAfter(rem, log, react) ==
    IF log = << >> THEN rem
    ELSE LET r == react[Head(log)]
             next == CASE r.kind = "none"        -> rem
                       [] r.kind = "unsubscribe" -> rem \cup {r.target}
                       [] r.kind = "subscribe"   -> rem \ {r.target}
         IN  RemovedAfter(next, Tail(log), react)

ObserverInit ==
    /\ observers = << >>
    /\ news = ""
    /\ oCall = OCall("none", "", "", NoReact)
    /\ notified = << >>
    /\ removed = {}

Subscribe(o) ==
    /\ Len(observers) < MaxObservers
    /\ observers' = SubscribeOp(observers, o)
    /\ oCall' = OCall("subscribe", o, "", NoReact)
    /\ notified' = << >>
    /\ removed' = removed \ {o}
    /\ UNCHANGED news
    /\ UNCHANGED exceptObserver

Unsubscribe(o) ==
    /\ observers' = UnsubscribeOp(observers, o)
    /\ oCall' = OCall("unsubscribe", o, "", NoReact)
    /\ notified' = << >>
    /\ removed' = removed \cup {o}
    /\ UNCHANGED news
    /\ UNCHANGED exceptObserver

Notify(data, react) ==
    LET out == NotifyOp(observers, react)
    IN  /\ Len(out.observers) <= MaxObservers
        /\ observers' = out.observers
        /\ notified' = out.notified
        /\ removed' = RemovedAfter(removed, out.notified, react)
        /\ oCall' = OCall("notify", "", data, react)
        /\ UNCHANGED news
        /\ UNCHANGED exceptObserver

SetNews(n, react) ==
    LET out == NotifyOp(observers, react)
    IN  /\ Len(out.observers) <= MaxObservers
        /\ news' = n
        /\ observers' = out.observers
        /\ notified' = out.notified
        /\ removed' = RemovedAfter(removed, out.notified, react)
        /\ oCall' = OCall("setNews", "", n, react)
        /\ UNCHANGED exceptObserver

ObserverNext ==
    \/ \E o \in ObserverIds : Subscribe(o)
    \/ \E o \in ObserverIds : Unsubscribe(o)
    \/ \E n \in NewsItems, react \in [ObserverIds -> Reactions] : Notify(n, react)
    \/ \E n \in NewsItems, react \in [ObserverIds -> Reactions] : SetNews(n, react)

----------------------------------------------------------------------------
(* 04-strategy.ts: ShoppingCart and its payment strategies                 *)

\* items ever added to one cart
MaxItems == 3

\* largest price of an item
MaxPrice == 2

Prices == 0..MaxPrice

ItemNames == {"Laptop", "Mouse"}

\* the concrete strategies; their pay only logs
Strategies == {"CreditCardPayment", "PayPalPayment", "BitcoinPayment"}

Item(n, p) == [name |-> n, price |-> p]

Payment(s, a) == [strategy |-> s, amount |-> a]

COut(its, pays, res) == [items |-> its, payments |-> pays, result |-> res]

CVoid == [kind |-> "void", value |-> 0, message |-> ""]
CNumber(v) == [kind |-> "number", value |-> v, message |-> ""]
CThrow(msg) == [kind |-> "throw", value |-> 0, message |-> msg]
CNone == [kind |-> "none", value |-> 0, message |-> ""]

\* items.reduce((sum, item) => sum + item.price, 0)
RECURSIVE Reduce(_, _)
Reduce(its, sum) ==
    IF its = << >> THEN sum ELSE Reduce(Tail(its), sum + Head(its).price)

AddItemOp(its, n, p) == Append(its, Item(n, p))

GetTotalOp(its) == Reduce(its, 0)

\* checkout without `this.items = []`
CheckoutOpKeepItems(its, strategy) ==
    IF strategy = "null"
    THEN COut(its, << >>, CThrow("Payment strategy not set"))
    ELSE LET total == Reduce(its, 0)
         IN  COut(its, <<Payment(strategy, total)>>, CVoid)

\* checkout emptying the cart before it looks at the strategy
CheckoutOpClearFirst(its, strategy) ==
    IF strategy = "null"
    THEN COut(<< >>, << >>, CThrow("Payment strategy not set"))
    ELSE LET total == Reduce(its, 0)
         IN  COut(<< >>, <<Payment(strategy, total)>>, CVoid)

CheckoutOp(its, strategy) ==
    IF strategy = "null"
    THEN COut(its, << >>, CThrow("Payment strategy not set"))
    ELSE LET total == Reduce(its, 0)
         IN  COut(<< >>, <<Payment(strategy, total)>>, CVoid)

\* the sum of the amounts of a list of pay calls
RECURSIVE Charged(_)
Charged(pays) ==
    IF pays = << >> THEN 0 ELSE Head(pays).amount + Charged(Tail(pays))

CartCall(o, n, p, s) == [op |-> o, name |-> n, price |-> p, strategy |-> s]

CartInit ==
    /\ items = << >>
    /\ paymentStrategy = "null"
    /\ cartCall = CartCall("none", "", 0, "null")
    /\ cartResult = CNone
    /\ payments = << >>
    /\ added = << >>
    /\ paidUpTo = 0
    /\ everPaid = 0

AddItem(n, p) ==
    /\ Len(added) < MaxItems
    /\ items' = AddItemOp(items, n, p)
    /\ cartCall' = CartCall("addItem", n, p, "null")
    /\ cartResult' = CVoid
    /\ payments' = << >>
    /\ added' = Append(added, p)
    /\ UNCHANGED <<paymentStrategy, paidUpTo, everPaid>>
    /\ UNCHANGED exceptCart

SetPaymentStrategy(s) ==
    /\ paymentStrategy' = s
    /\ cartCall' = CartCall("setPaymentStrategy", "", 0, s)
    /\ cartResult' = CVoid
    /\ payments' = << >>
    /\ UNCHANGED <<items, added, paidUpTo, everPaid>>
    /\ UNCHANGED exceptCart

Checkout ==
    LET out == CheckoutOp(items, paymentStrategy)
    IN  /\ items' = out.items
        /\ cartCall' = CartCall("checkout", "", 0, "null")
        /\ cartResult' = out.result
        /\ payments' = out.payments
        /\ paidUpTo' = IF out.result.kind = "throw" THEN paidUpTo ELSE Len(added)
        /\ everPaid' = everPaid + Charged(out.payments)
        /\ UNCHANGED <<paymentStrategy, added>>
        /\ UNCHANGED exceptCart

GetTotal ==
    /\ cartCall' = CartCall("getTotal", "", 0, "null")
    /\ cartResult' = CNumber(GetTotalOp(items))
    /\ payments' = << >>
    /\ UNCHANGED <<items, paymentStrategy, added, paidUpTo, everPaid>>
    /\ UNCHANGED exceptCart

CartNext ==
    \/ \E n \in ItemNames, p \in Prices : AddItem(n, p)
    \/ \E s \in Strategies : SetPaymentStrategy(s)
    \/ Checkout
    \/ GetTotal

----------------------------------------------------------------------------
(* 03-async.ts: fetchData, fetchMultiple, fetchSequential                  *)

\* fetchData calls made directly
MaxFetches == 2

DataFetched == "Data fetched successfully"

FailedToFetch == "Failed to fetch data"

\* a promise for a string, with the timer its executor set
FetchPromise(st, v, r, t) == [state |-> st, value |-> v, reason |-> r, timer |-> t]

\* resolve(v) and reject(r) of a promise: no effect once it has settled
ResolveP(p, v) ==
    IF p.state = "pending" THEN [p EXCEPT !.state = "fulfilled", !.value = v] ELSE p

RejectP(p, r) ==
    IF p.state = "pending" THEN [p EXCEPT !.state = "rejected", !.reason = r] ELSE p

\* fetchData(): the executor runs at once and only sets the timer
FetchDataOp == FetchPromise("pending", "", "", "armed")

\* the timer callback without its else branch
TimeoutOpNoElse(p, success) ==
    LET q == [p EXCEPT !.timer = "fired"]
    IN  IF success THEN ResolveP(q, DataFetched) ELSE q

\* the timer callback: success is Math.random() > 0.5
TimeoutOp(p, success) ==
    LET q == [p EXCEPT !.timer = "fired"]
    IN  IF success THEN ResolveP(q, DataFetched) ELSE RejectP(q, FailedToFetch)

\* Promise.all(promises): the promise, the values gathered and the count left
PromiseAllOp(n) ==
    [state |-> "pending", values |-> [k \in 1..n |-> ""], remaining |-> n,
     reason |-> ""]

\* Promise.all, element k fulfilled with v
PromiseAllOnFulfilled(a, k, v) ==
    LET vals == [a.values EXCEPT ![k] = v]
        rem == a.remaining - 1
    IN  IF rem = 0 /\ a.state = "pending"
        THEN [a EXCEPT !.values = vals, !.remaining = rem, !.state = "fulfilled"]
        ELSE [a EXCEPT !.values = vals, !.remaining = rem]

\* an element rejected, Promise.all rejecting only when it is the last to settle
PromiseAllOnRejectedLast(a, r) ==
    LET rem == a.remaining - 1
    IN  IF rem = 0 /\ a.state = "pending"
        THEN [a EXCEPT !.remaining = rem, !.state = "rejected", !.reason = r]
        ELSE [a EXCEPT !.remaining = rem]

\* Promise.all, an element rejected with r
PromiseAllOnRejected(a, r) ==
    IF a.state = "pending" THEN [a EXCEPT !.state = "rejected", !.reason = r] ELSE a

\* the reaction of Promise.all to its element k having settled as p
PromiseAllReact(a, k, p) ==
    CASE p.state = "fulfilled" -> PromiseAllOnFulfilled(a, k, p.value)
      [] p.state = "rejected"  -> PromiseAllOnRejected(a, p.reason)
      [] OTHER                 -> a

NoMultiple ==
    [state |-> "none", values |-> <<"", "", "">>, remaining |-> 3, reason |-> ""]

\* fetchSequential's frame: the promise it returned, i and results
SeqState(st, i, res, r) == [state |-> st, i |-> i, results |-> res, reason |-> r]

SeqOut(sq, fs) == [sequential |-> sq, fetches |-> fs]

\* fetchSequential up to its first await
FetchSequentialOp == SeqOut(SeqState("pending", 0, << >>, ""), <<FetchDataOp>>)

\* fetchSequential with the rejection of an awaited call swallowed
FetchSequentialResumeSkip(sq, fs, p) ==
    LET results == IF p.state = "fulfilled" THEN Append(sq.results, p.value)
                   ELSE sq.results
        i == sq.i + 1
    IN  IF i < 3
        THEN SeqOut(SeqState("pending", i, results, ""), Append(fs, FetchDataOp))
        ELSE SeqOut(SeqState("fulfilled", i, results, ""), fs)

\* fetchSequential resumed after `await fetchData()` settled as p
FetchSequentialResume(sq, fs, p) ==
    IF p.state = "rejected"
    THEN SeqOut(SeqState("rejected", sq.i, sq.results, p.reason), fs)
    ELSE LET results == Append(sq.results, p.value)
             i == sq.i + 1
         IN  IF i < 3
             THEN SeqOut(SeqState("pending", i, results, ""), Append(fs, FetchDataOp))
             ELSE SeqOut(SeqState("fulfilled", i, results, ""), fs)

AsyncInit ==
    /\ fetches = << >>
    /\ multiFetches = << >>
    /\ multiple = NoMultiple
    /\ seqFetches = << >>
    /\ sequential = SeqState("none", 0, << >>, "")

\* fetchData() called directly
FetchData ==
    /\ Len(fetches) < MaxFetches
    /\ fetches' = Append(fetches, FetchDataOp)
    /\ UNCHANGED <<multiFetches, multiple, seqFetches, sequential>>
    /\ UNCHANGED exceptAsync

\* the timer of the k-th direct call fires
Timeout(k, success) ==
    /\ k \in 1..Len(fetches)
    /\ fetches[k].timer = "armed"
    /\ fetches' = [fetches EXCEPT ![k] = TimeoutOp(@, success)]
    /\ UNCHANGED <<multiFetches, multiple, seqFetches, sequential>>
    /\ UNCHANGED exceptAsync

\* fetchMultiple(): three fetchData calls and Promise.all in one synchronous
\* run; the async function's promise is resolved with Promise.all's and takes
\* its state before any timer callback runs
FetchMultiple ==
    /\ multiple.state = "none"
    /\ multiFetches' = <<FetchDataOp, FetchDataOp, FetchDataOp>>
    /\ multiple' = PromiseAllOp(3)
    /\ UNCHANGED <<fetches, seqFetches, sequential>>
    /\ UNCHANGED exceptAsync

\* the timer of fetchMultiple's k-th call fires; Promise.all's reaction runs
\* as a microtask of the same turn
TimeoutMultiple(k, success) ==
    /\ k \in 1..Len(multiFetches)
    /\ multiFetches[k].timer = "armed"
    /\ LET p == TimeoutOp(multiFetches[k], success)
       IN  /\ multiFetches' = [multiFetches EXCEPT ![k] = p]
           /\ multiple' = PromiseAllReact(multiple, k, p)
    /\ UNCHANGED <<fetches, seqFetches, sequential>>
    /\ UNCHANGED exceptAsync

\* fetchSequential() up to its first await
FetchSequential ==
    /\ sequential.state = "none"
    /\ sequential' = FetchSequentialOp.sequential
    /\ seqFetches' = FetchSequentialOp.fetches
    /\ UNCHANGED <<fetches, multiFetches, multiple>>
    /\ UNCHANGED exceptAsync

\* the timer of fetchSequential's k-th call fires; the function resumes in
\* the same turn if that is the call it awaits
TimeoutSequential(k, success) ==
    /\ k \in 1..Len(seqFetches)
    /\ seqFetches[k].timer = "armed"
    /\ LET p == TimeoutOp(seqFetches[k], success)
           fs == [seqFetches EXCEPT ![k] = p]
           out == IF sequential.state = "pending" /\ k = sequential.i + 1
                     /\ p.state # "pending"
                  THEN FetchSequentialResume(sequential, fs, p)
                  ELSE SeqOut(sequential, fs)
       IN  /\ seqFetches' = out.fetches
           /\ sequential' = out.sequential
    /\ UNCHANGED <<fetches, multiFetches, multiple>>
    /\ UNCHANGED exceptAsync

AsyncNext ==
    \/ FetchData
    \/ \E k \in 1..MaxFetches, success \in BOOLEAN : Timeout(k, success)
    \/ FetchMultiple
    \/ \E k \in 1..3, success \in BOOLEAN : TimeoutMultiple(k, success)
    \/ FetchSequential
    \/ \E k \in 1..3, success \in BOOLEAN : TimeoutSequential(k, success)

----------------------------------------------------------------------------
(* Promises guide, Pattern 1: fetchWithRetry                               *)

\* largest maxRetries passed
MaxRetries == 3

\* fetchWithRetry calls made
MaxRetryCalls == 2

\* maxRetries as passed: negative, zero, up to MaxRetries (3 is the default)
RetryArgs == (0 - 1)..MaxRetries

\* the frame of one call: its maxRetries and i, where it stands, how many
\* times it has called fetch and how each call ended, the delays it has
\* waited (ms), and its outcome: the response or the error of which attempt
RetryFrame(max, i, pc, attempts, outcomes, waits, response, thrown, error) ==
    [maxRetries |-> max, i |-> i, pc |-> pc, attempts |-> attempts,
     outcomes |-> outcomes, waits |-> waits, response |-> response,
     thrown |-> thrown, error |-> error]

\* the head of the for loop: the next fetch, or the throw after the loop
RetryLoop(f) ==
    IF f.i < f.maxRetries
    THEN [f EXCEPT !.pc = "fetching", !.attempts = @ + 1]
    ELSE [f EXCEPT !.pc = "thrown", !.thrown = "Max retries exceeded"]

\* fetchWithRetry(url, maxRetries) up to its first await
FetchWithRetryOp(max) ==
    RetryLoop(RetryFrame(max, 0, "start", 0, << >>, << >>, 0, "", 0))

\* the catch clause comparing i with maxRetries instead of maxRetries - 1
FetchSettledOpNoRethrow(f, ok) ==
    IF ok
    THEN [f EXCEPT !.pc = "returned", !.response = f.attempts,
                   !.outcomes = Append(@, "ok")]
    ELSE IF f.i = f.maxRetries
         THEN [f EXCEPT !.pc = "thrown", !.thrown = "fetch error",
                        !.error = f.attempts, !.outcomes = Append(@, "error")]
         ELSE [f EXCEPT !.pc = "waiting", !.waits = Append(@, 1000 * (f.i + 1)),
                        !.outcomes = Append(@, "error")]

\* `await fetch(url)` settled: return the response, or the catch clause
FetchSettledOp(f, ok) ==
    IF ok
    THEN [f EXCEPT !.pc = "returned", !.response = f.attempts,
                   !.outcomes = Append(@, "ok")]
    ELSE IF f.i = f.maxRetries - 1
         THEN [f EXCEPT !.pc = "thrown", !.thrown = "fetch error",
                        !.error = f.attempts, !.outcomes = Append(@, "error")]
         ELSE [f EXCEPT !.pc = "waiting", !.waits = Append(@, 1000 * (f.i + 1)),
                        !.outcomes = Append(@, "error")]

\* the delay is over: i++ and the head of the loop again
DelayDoneOp(f) == RetryLoop([f EXCEPT !.i = @ + 1])

RetryInit == retries = << >>

FetchWithRetry(max) ==
    /\ Len(retries) < MaxRetryCalls
    /\ retries' = Append(retries, FetchWithRetryOp(max))
    /\ UNCHANGED exceptRetry

\* the fetch of call c settles
FetchSettled(c, ok) ==
    /\ c \in 1..Len(retries)
    /\ retries[c].pc = "fetching"
    /\ retries' = [retries EXCEPT ![c] = FetchSettledOp(@, ok)]
    /\ UNCHANGED exceptRetry

\* the timer of call c's delay fires
DelayDone(c) ==
    /\ c \in 1..Len(retries)
    /\ retries[c].pc = "waiting"
    /\ retries' = [retries EXCEPT ![c] = DelayDoneOp(@)]
    /\ UNCHANGED exceptRetry

RetryNext ==
    \/ \E max \in RetryArgs : FetchWithRetry(max)
    \/ \E c \in 1..MaxRetryCalls, ok \in BOOLEAN : FetchSettled(c, ok)
    \/ \E c \in 1..MaxRetryCalls : DelayDone(c)

----------------------------------------------------------------------------
(* Promises guide, Pattern 4: processWithLimit                             *)

\* longest items array passed
MaxProcItems == 4

\* largest limit passed
MaxLimit == 3

ItemList == <<"a", "b", "c", "d", "e">>

\* the arrays passed as items: [], ['a'], ['a', 'b'], ...
ItemArrays == {SubSeq(ItemList, 1, n) : n \in 0..MaxProcItems}

Limits == 1..MaxLimit

\* what the processor's promise fulfils with, and what it rejects with
ResultOf == [a |-> "A", b |-> "B", c |-> "C", d |-> "D", e |-> "E"]

ErrorOf == [a |-> "a failed", b |-> "b failed", c |-> "c failed",
            d |-> "d failed", e |-> "e failed"]

\* the processor call of one item
ProcCall(st, n) == [state |-> st, starts |-> n]

\* the frame of processWithLimit: items, limit, i, results, the batch awaited
\* and its Promise.all, and the promise the function returned
LimitFrame(pc, its, limit, i, results, batch, all, reason) ==
    [pc |-> pc, items |-> its, limit |-> limit, i |-> i, results |-> results,
     batch |-> batch, all |-> all, reason |-> reason]

LOut(fr, calls) == [limited |-> fr, procCalls |-> calls]

Min(a, b) == IF a < b THEN a ELSE b

\* Array.prototype.slice(from, to) for 0 <= from <= to, indices from 0
Slice(arr, from, to) == SubSeq(arr, from + 1, Min(to, Len(arr)))

\* the processor is called on every item of the batch
StartCalls(calls, i, n) ==
    [k \in 1..Len(calls) |->
        IF k > i /\ k <= i + n
        THEN ProcCall("pending", calls[k].starts + 1)
        ELSE calls[k]]

\* the head of the for loop with the batch taking all the remaining items
ProcessLoopNoLimit(fr, calls) ==
    IF fr.i < Len(fr.items)
    THEN LET batch == Slice(fr.items, fr.i, Len(fr.items))
         IN  LOut([fr EXCEPT !.pc = "awaiting", !.batch = batch,
                             !.all = PromiseAllOp(Len(batch))],
                  StartCalls(calls, fr.i, Len(batch)))
    ELSE LOut([fr EXCEPT !.pc = "fulfilled"], calls)

\* the head of the for loop: the next batch up to its await, or the return
ProcessLoop(fr, calls) ==
    IF fr.i < Len(fr.items)
    THEN LET batch == Slice(fr.items, fr.i, fr.i + fr.limit)
         IN  LOut([fr EXCEPT !.pc = "awaiting", !.batch = batch,
                             !.all = PromiseAllOp(Len(batch))],
                  StartCalls(calls, fr.i, Len(batch)))
    ELSE LOut([fr EXCEPT !.pc = "fulfilled"], calls)

NoBatch == PromiseAllOp(0)

\* processWithLimit(items, processor, limit) up to its first await
ProcessWithLimitOp(its, limit) ==
    ProcessLoop(LimitFrame("start", its, limit, 0, << >>, << >>, NoBatch, ""),
                [k \in 1..Len(its) |-> ProcCall("none", 0)])

\* the promise of the processor call of item k as it settles
ProcPromise(fr, k, ok) ==
    IF ok THEN FetchPromise("fulfilled", ResultOf[fr.items[k]], "", "fired")
    ELSE FetchPromise("rejected", "", ErrorOf[fr.items[k]], "fired")

\* the processor call of item k settles; if it belongs to the batch awaited,
\* Promise.all reacts and the function may resume: results.push(...), i += limit
ProcessorSettledOp(fr, calls, k, ok) ==
    LET p == ProcPromise(fr, k, ok)
        calls2 == [calls EXCEPT ![k] = ProcCall(p.state, @.starts)]
    IN  IF fr.pc = "awaiting" /\ k > fr.i /\ k <= fr.i + Len(fr.batch)
        THEN LET all2 == PromiseAllReact(fr.all, k - fr.i, p)
             IN  CASE all2.state = "fulfilled" ->
                        ProcessLoop([fr EXCEPT !.results = @ \o all2.values,
                                               !.i = @ + fr.limit,
                                               !.all = all2], calls2)
                   [] all2.state = "rejected" ->
                        LOut([fr EXCEPT !.pc = "rejected", !.reason = all2.reason,
                                        !.all = all2], calls2)
                   [] OTHER -> LOut([fr EXCEPT !.all = all2], calls2)
        ELSE LOut(fr, calls2)

LimitInit ==
    /\ limited = LimitFrame("none", << >>, 1, 0, << >>, << >>, NoBatch, "")
    /\ procCalls = << >>

ProcessWithLimit(its, limit) ==
    /\ limited.pc = "none"
    /\ LET out == ProcessWithLimitOp(its, limit)
       IN  /\ limited' = out.limited
           /\ procCalls' = out.procCalls
    /\ UNCHANGED exceptLimit

ProcessorSettled(k, ok) ==
    /\ k \in 1..Len(procCalls)
    /\ procCalls[k].state = "pending"
    /\ LET out == ProcessorSettledOp(limited, procCalls, k, ok)
       IN  /\ limited' = out.limited
           /\ procCalls' = out.procCalls
    /\ UNCHANGED exceptLimit

LimitNext ==
    \/ \E its \in ItemArrays, limit \in Limits : ProcessWithLimit(its, limit)
    \/ \E k \in 1..MaxProcItems, ok \in BOOLEAN : ProcessorSettled(k, ok)

----------------------------------------------------------------------------
(* createCounter: a closure over its own count                             *)

\* counters created
MaxCounters == 3

\* calls made to one counter
MaxCount == 3

KOut(cs, r) == [counters |-> cs, result |-> r]

\* createCounter(): let count = 0, and the closure over it
CreateCounterOp(cs) == KOut(Append(cs, 0), Len(cs) + 1)

\* the closure with one count shared by all counters
CounterOpShared(cs, c) ==
    KOut([k \in 1..Len(cs) |-> cs[k] + 1], cs[c] + 1)

\* the closure: count++; return count
CounterOp(cs, c) ==
    LET count == cs[c] + 1
    IN  KOut([cs EXCEPT ![c] = count], count)

CtrCall(o, c) == [op |-> o, counter |-> c]

CounterInit ==
    /\ counters = << >>
    /\ ctrCalls = << >>
    /\ ctrCall = CtrCall("none", 0)
    /\ ctrResult = 0

CreateCounter ==
    /\ Len(counters) < MaxCounters
    /\ LET out == CreateCounterOp(counters)
       IN  /\ counters' = out.counters
           /\ ctrCall' = CtrCall("createCounter", out.result)
    /\ ctrCalls' = Append(ctrCalls, 0)
    /\ ctrResult' = 0
    /\ UNCHANGED exceptCounter

\* counter c is called
Counter(c) ==
    /\ c \in 1..Len(counters)
    /\ ctrCalls[c] < MaxCount
    /\ LET out == CounterOp(counters, c)
       IN  /\ counters' = out.counters
           /\ ctrResult' = out.result
    /\ ctrCalls' = [ctrCalls EXCEPT ![c] = @ + 1]
    /\ ctrCall' = CtrCall("counter", c)
    /\ UNCHANGED exceptCounter

CounterNext ==
    \/ CreateCounter
    \/ \E c \in 1..MaxCounters : Counter(c)

----------------------------------------------------------------------------
(* Express user store: GET /users, GET /users/:id, POST /users             *)

\* users the store may hold
MaxStoreUsers == 4

AppUser(i, n, e) == [id |-> i, name |-> n, email |-> e]

NoAppUser == AppUser(0, "", "")

\* a field of the JSON body: absent, or a string
BodyField(g, str) == [given |-> g, str |-> str]

NoField == BodyField(FALSE, "")

Body(n, e) == [name |-> n, email |-> e]

Bodies ==
    {Body(n, e) : n \in {NoField, BodyField(TRUE, ""), BodyField(TRUE, "Carol"),
                         BodyField(TRUE, "Dave")},
                  e \in {NoField, BodyField(TRUE, ""),
                         BodyField(TRUE, "carol@example.com")}}

\* !name, !email: undefined and '' are falsy
Missing(f) == ~f.given \/ f.str = ""

\* the :id segment as Express hands it over, a non-empty string:
\* '1', '2', '3', '4', '01', '2x', 'x', ' 3', '-1', '+2'
IdParams ==
    {<<"1">>, <<"2">>, <<"3">>, <<"4">>, <<"0", "1">>, <<"2", "x">>, <<"x">>,
     <<" ", "3">>, <<"-", "1">>, <<"+", "2">>}

DigitValue ==
    [c \in {"0", "1", "2", "3", "4", "5", "6", "7", "8", "9"} |->
        CASE c = "0" -> 0 [] c = "1" -> 1 [] c = "2" -> 2 [] c = "3" -> 3
          [] c = "4" -> 4 [] c = "5" -> 5 [] c = "6" -> 6 [] c = "7" -> 7
          [] c = "8" -> 8 [] c = "9" -> 9]

\* a number or NaN
Num(n) == [nan |-> FALSE, n |-> n]

NaN == [nan |-> TRUE, n |-> 0]

RECURSIVE SkipSpaces(_)
SkipSpaces(str) ==
    IF str # << >> /\ Head(str) = " " THEN SkipSpaces(Tail(str)) ELSE str

\* the value of the longest prefix of decimal digits, NaN if there is none
RECURSIVE ParseDigits(_, _, _)
ParseDigits(str, acc, any) ==
    IF str # << >> /\ Head(str) \in DOMAIN DigitValue
    THEN ParseDigits(Tail(str), 10 * acc + DigitValue[Head(str)], TRUE)
    ELSE IF any THEN Num(acc) ELSE NaN

\* parseInt(str, 10): leading white space, an optional sign, decimal digits
ParseInt(str) ==
    LET s == SkipSpaces(str)
        signed == s # << >> /\ Head(s) \in {"-", "+"}
        digits == ParseDigits(IF signed THEN Tail(s) ELSE s, 0, FALSE)
    IN  IF signed /\ Head(s) = "-" /\ ~digits.nan THEN Num(0 - digits.n)
        ELSE digits

\* users.find((u) => u.id === id): the first match, 0 for undefined
Find(us, id) ==
    LET hits == {k \in 1..Len(us) : ~id.nan /\ us[k].id = id.n}
    IN  IF hits = {} THEN 0 ELSE CHOOSE k \in hits : \A j \in hits : k <= j

\* status and JSON body of a response
Res(status, user, list, error) ==
    [status |-> status, user |-> user, users |-> list, error |-> error]

AOut(us, res) == [users |-> us, res |-> res]

\* GET /users
GetUsersOp(us) == AOut(us, Res(200, NoAppUser, us, ""))

\* GET /users/:id
GetUserByIdOp(us, idParam) ==
    IF idParam = << >>
    THEN AOut(us, Res(400, NoAppUser, << >>, "User ID is required"))
    ELSE LET id == ParseInt(idParam)
             user == Find(us, id)
         IN  IF user = 0
             THEN AOut(us, Res(404, NoAppUser, << >>, "User not found"))
             ELSE AOut(us, Res(200, us[user], << >>, ""))

\* POST /users with id: users.length
PostUserOpLength(us, body) ==
    IF Missing(body.name) \/ Missing(body.email)
    THEN AOut(us, Res(400, NoAppUser, << >>, "Name and email are required"))
    ELSE LET newUser == AppUser(Len(us), body.name.str, body.email.str)
         IN  AOut(Append(us, newUser), Res(201, newUser, << >>, ""))

\* POST /users
PostUserOp(us, body) ==
    IF Missing(body.name) \/ Missing(body.email)
    THEN AOut(us, Res(400, NoAppUser, << >>, "Name and email are required"))
    ELSE LET newUser == AppUser(Len(us) + 1, body.name.str, body.email.str)
         IN  AOut(Append(us, newUser), Res(201, newUser, << >>, ""))

Req(o, idParam, body) == [op |-> o, idParam |-> idParam, body |-> body]

AppInit ==
    /\ appUsers = <<AppUser(1, "Alice", "alice@example.com"),
                    AppUser(2, "Bob", "bob@example.com")>>
    /\ httpReq = Req("none", << >>, Body(NoField, NoField))
    /\ httpRes = Res(0, NoAppUser, << >>, "")

GetUsers ==
    /\ httpReq' = Req("getUsers", << >>, Body(NoField, NoField))
    /\ httpRes' = GetUsersOp(appUsers).res
    /\ appUsers' = GetUsersOp(appUsers).users
    /\ UNCHANGED exceptApp

GetUserById(idParam) ==
    /\ httpReq' = Req("getUserById", idParam, Body(NoField, NoField))
    /\ httpRes' = GetUserByIdOp(appUsers, idParam).res
    /\ appUsers' = GetUserByIdOp(appUsers, idParam).users
    /\ UNCHANGED exceptApp

PostUser(body) ==
    LET out == PostUserOp(appUsers, body)
    IN  /\ Len(out.users) <= MaxStoreUsers
        /\ httpReq' = Req("postUser", << >>, body)
        /\ httpRes' = out.res
        /\ appUsers' = out.users
        /\ UNCHANGED exceptApp

AppNext ==
    \/ GetUsers
    \/ \E idParam \in IdParams : GetUserById(idParam)
    \/ \E body \in Bodies : PostUser(body)

----------------------------------------------------------------------------
(* 02-generics.ts: Stack<T>                                                *)

\* push and pop calls made on the stack
MaxStackCalls == 4

\* a value of T | undefined
Val(d, v) == [defined |-> d, v |-> v]

Undefined == Val(FALSE, 0)

\* the items pushed: 1, 2, and undefined for a Stack<number | undefined>
StackItems == {Val(TRUE, 1), Val(TRUE, 2), Undefined}

TOut(its, r) == [items |-> its, result |-> r]

TVoid == [kind |-> "void", value |-> Undefined, bool |-> FALSE]
TValue(x) == [kind |-> "value", value |-> x, bool |-> FALSE]
TBool(b) == [kind |-> "bool", value |-> Undefined, bool |-> b]

\* this.items.push(item)
PushOp(its, x) == TOut(Append(its, x), TVoid)

\* pop taking the item from the front: this.items.shift()
PopOpShift(its) ==
    IF Len(its) = 0 THEN TOut(its, TValue(Undefined))
    ELSE TOut(Tail(its), TValue(Head(its)))

\* this.items.pop(): removes and returns the last element, undefined if none
PopOp(its) ==
    IF Len(its) = 0 THEN TOut(its, TValue(Undefined))
    ELSE TOut(SubSeq(its, 1, Len(its) - 1), TValue(its[Len(its)]))

\* this.items[this.items.length - 1]: undefined at index -1
PeekOp(its) ==
    LET index == Len(its) - 1
    IN  IF index < 0 THEN TOut(its, TValue(Undefined))
        ELSE TOut(its, TValue(its[index + 1]))

\* this.items.length === 0
IsEmptyOp(its) == TOut(its, TBool(Len(its) = 0))

StackCall(o, x) == [op |-> o, item |-> x]

StackInit ==
    /\ stack = << >>
    /\ stackLog = << >>
    /\ stackCall = StackCall("none", Undefined)
    /\ stackResult = TVoid

Push(x) ==
    /\ Len(stackLog) < MaxStackCalls
    /\ stack' = PushOp(stack, x).items
    /\ stackResult' = PushOp(stack, x).result
    /\ stackCall' = StackCall("push", x)
    /\ stackLog' = Append(stackLog, StackCall("push", x))
    /\ UNCHANGED exceptStack

Pop ==
    /\ Len(stackLog) < MaxStackCalls
    /\ stack' = PopOp(stack).items
    /\ stackResult' = PopOp(stack).result
    /\ stackCall' = StackCall("pop", Undefined)
    /\ stackLog' = Append(stackLog, StackCall("pop", Undefined))
    /\ UNCHANGED exceptStack

Peek ==
    /\ stack' = PeekOp(stack).items
    /\ stackResult' = PeekOp(stack).result
    /\ stackCall' = StackCall("peek", Undefined)
    /\ UNCHANGED stackLog
    /\ UNCHANGED exceptStack

IsEmpty ==
    /\ stack' = IsEmptyOp(stack).items
    /\ stackResult' = IsEmptyOp(stack).result
    /\ stackCall' = StackCall("isEmpty", Undefined)
    /\ UNCHANGED stackLog
    /\ UNCHANGED exceptStack

StackNext ==
    \/ \E x \in StackItems : Push(x)
    \/ Pop
    \/ Peek
    \/ IsEmpty

----------------------------------------------------------------------------
(* Specifications: one per example *)

\* every object as constructed, the bank account with the default balance 0
Init ==
    /\ RepoInit /\ ConcInit /\ SingletonInit /\ BankNew(0) /\ ObserverInit
    /\ CartInit
    /\ AsyncInit
    /\ RetryInit
    /\ LimitInit
    /\ CounterInit
    /\ AppInit
    /\ StackInit

\* the same, the bank account constructed with any initial balance
InitAnyBalance ==
    /\ RepoInit /\ ConcInit /\ SingletonInit /\ BankInit /\ ObserverInit
    /\ CartInit
    /\ AsyncInit
    /\ RetryInit
    /\ LimitInit
    /\ CounterInit
    /\ AppInit
    /\ StackInit

Next == RepoNext

\* the two repositories used directly through the UserRepository interface
Spec == Init /\ [][Next]_vars

\* the two repositories used through UserService
SpecService == Init /\ [][ServiceNext]_vars

\* one DatabaseUserRepository, calls not awaited
SpecConcurrent == Init /\ [][ConcNext]_vars

SpecSingleton == Init /\ [][SingletonNext]_vars

SpecBank == InitAnyBalance /\ [][BankNext]_vars

SpecObserver == Init /\ [][ObserverNext]_vars

SpecCart == Init /\ [][CartNext]_vars

SpecAsync == Init /\ [][AsyncNext]_vars

\* the event loop runs the callback of every timer that has expired
TimersFire ==
    /\ \A k \in 1..MaxFetches : WF_vars(\E success \in BOOLEAN : Timeout(k, success))
    /\ \A k \in 1..3 : WF_vars(\E success \in BOOLEAN : TimeoutMultiple(k, success))
    /\ \A k \in 1..3 : WF_vars(\E success \in BOOLEAN : TimeoutSequential(k, success))

SpecAsyncFair == Init /\ [][AsyncNext]_vars /\ TimersFire

SpecRetry == Init /\ [][RetryNext]_vars

\* every fetch settles and every delay timer fires
RetryFair ==
    \A c \in 1..MaxRetryCalls :
        /\ WF_vars(\E ok \in BOOLEAN : FetchSettled(c, ok))
        /\ WF_vars(DelayDone(c))

SpecRetryFair == Init /\ [][RetryNext]_vars /\ RetryFair

SpecLimit == Init /\ [][LimitNext]_vars

SpecCounter == Init /\ [][CounterNext]_vars

SpecApp == Init /\ [][AppNext]_vars

SpecStack == Init /\ [][StackNext]_vars

----------------------------------------------------------------------------
(* Claims about the repositories (Spec, SpecService)                       *)

\* C1: issued the same awaited operations from empty, InMemoryUserRepository
\* and DatabaseUserRepository return the same result for every operation.
C1_SameResults == memResult = dbResult

\* the users array without the users whose id is k
WithoutId(users, k) ==
    LET Keep(u) == u.id # k IN SelectSeq(users, Keep)

\* what findById(k) would return on the in-memory repository
MemLookup(users, k) == MemFindById(users, 0, k).result

\* a step of the property below
C7_RoundTripStep ==
    /\ lastCall'.op = "create" =>
          LET u == User(memResult'.user.id, lastCall'.name, lastCall'.email)
          IN  /\ memResult' = RUser(u)
              /\ MemLookup(memUsers', u.id) = RUser(u)
              /\ \E j \in 1..Len(memUsers') : memUsers'[j] = u
    /\ \A k \in Ids :
          (/\ MemLookup(memUsers, k).kind = "user"
           /\ ~(lastCall'.op \in {"update", "delete"} /\ lastCall'.id = k))
             => MemLookup(memUsers', k) = MemLookup(memUsers, k)
    /\ (lastCall'.op = "delete" /\ memResult' = RBool(TRUE)) =>
          /\ MemLookup(memUsers', lastCall'.id) = RNull
          /\ \A j \in 1..Len(memUsers') : memUsers'[j].id # lastCall'.id
          /\ memUsers' = WithoutId(memUsers, lastCall'.id)

\* C7: after create(u) returns a user with id k, findById(k) returns a user
\* with id k and u's name and email and findAll contains it, until that user
\* is updated or deleted; after delete(k) returns true, findById(k) returns
\* null, findAll has no user with id k and the other users are unchanged
\* (InMemoryUserRepository).
C7_RoundTrip == [][C7_RoundTripStep]_vars

\* a step of the property below
C8_MissingIdStep ==
    /\ (lastCall'.op = "update" /\ \A j \in 1..Len(memUsers) : memUsers[j].id # lastCall'.id)
          => /\ memResult' = RNotFound(lastCall'.id)
             /\ UNCHANGED <<memUsers, memNextId>>
    /\ (lastCall'.op = "delete" /\ \A j \in 1..Len(memUsers) : memUsers[j].id # lastCall'.id)
          => /\ memResult' = RBool(FALSE)
             /\ UNCHANGED <<memUsers, memNextId>>
    /\ (lastCall'.op = "update" /\ \A j \in 1..Len(dbUsers) : dbUsers[j].key # lastCall'.id)
          => /\ dbResult' = RNotFound(lastCall'.id)
             /\ UNCHANGED <<dbUsers, dbNextId>>
    /\ (lastCall'.op = "delete" /\ \A j \in 1..Len(dbUsers) : dbUsers[j].key # lastCall'.id)
          => /\ dbResult' = RBool(FALSE)
             /\ UNCHANGED <<dbUsers, dbNextId>>

\* C8: update(id, ...) for an id that is not stored throws `User with id
\* <id> not found`, delete(id) for an id that is not stored returns false,
\* and both leave the stored users and nextId as they were, in the in-memory
\* and in the database repository (not stored: the repository's own lookup,
\* findIndex on the array and the key in the map, finds nothing).
C8_MissingId == [][C8_MissingIdStep]_vars

\* a delete of an id stored in neither repository, both holding users
C8_Witness ==
    /\ lastCall.op = "delete"
    /\ memResult = RBool(FALSE)
    /\ dbResult = RBool(FALSE)
    /\ Len(memUsers) > 0
    /\ Len(dbUsers) > 0

\* a step of the property below
C6_ValidationStep ==
    LET e == lastCall'.email
        hasAt == "@" \in {e[k] : k \in 1..Len(e)}
    IN  /\ (lastCall'.op \in {"createUser", "updateUserEmail"} /\ ~hasAt)
              => /\ memResult' = RInvalidEmail
                 /\ dbResult' = RInvalidEmail
                 /\ repoCalls' = << >>
                 /\ UNCHANGED <<memUsers, memNextId, dbUsers, dbNextId>>
        /\ (lastCall'.op = "createUser" /\ hasAt)
              => /\ repoCalls' = <<"create">>
                 /\ Out(memUsers', memNextId', memResult')
                       = MemCreate(memUsers, memNextId, lastCall'.name, e)
                 /\ Out(dbUsers', dbNextId', dbResult')
                       = DbCreate(dbUsers, dbNextId, lastCall'.name, e)
        /\ (lastCall'.op = "updateUserEmail" /\ hasAt)
              => /\ repoCalls' = <<"update">>
                 /\ Out(memUsers', memNextId', memResult')
                       = MemUpdate(memUsers, memNextId, lastCall'.id, [email |-> e])
                 /\ Out(dbUsers', dbNextId', dbResult')
                       = DbUpdate(dbUsers, dbNextId, lastCall'.id, [email |-> e])

\* C6: createUser and updateUserEmail with an email without '@' throw
\* 'Invalid email address' before calling the repository, whose users and
\* nextId stay as they were; with an email containing '@' they make exactly
\* one create / update call on the repository and return its outcome.
C6_Validation == [][C6_ValidationStep]_vars

\* createUser rejected for its email while the repositories hold a user
C6_Witness ==
    /\ lastCall.op = "createUser"
    /\ memResult = RInvalidEmail
    /\ repoCalls = << >>
    /\ Len(memUsers) > 0
    /\ Len(dbUsers) > 0

----------------------------------------------------------------------------
(* Claims about concurrent calls (SpecConcurrent)                          *)

\* the calls order[1..n] run one after the other, each awaited, from empty
RECURSIVE Replay(_, _)
Replay(order, n) ==
    IF n = 0
    THEN Out(<< >>, 1, RNone)
    ELSE LET prev == Replay(order, n - 1)
         IN  DbApply(cCalls[order[n]], prev.users, prev.nextId)

IsUpdateOf(k, i) == cCalls[k].op = "update" /\ cCalls[k].id = i

\* C2: DatabaseUserRepository needs no locking: whatever the order in which
\* the delays of concurrently started calls complete, the results returned
\* and the stored map are those of a sequential execution of the same calls
\* (the one in settling order); two creates never return the same id, and
\* of two updates of the same user both take effect.
C2_Sequential ==
    /\ Replay(cDone, Len(cDone)).users = cUsers
    /\ Replay(cDone, Len(cDone)).nextId = cNextId
    /\ \A n \in 1..Len(cDone) : Replay(cDone, n).result = cResults[cDone[n]]
    /\ \A j, k \in 1..Len(cCalls) :
          (/\ j # k
           /\ Settled(j) /\ Settled(k)
           /\ cCalls[j].op = "create" /\ cCalls[k].op = "create")
             => cResults[j].user.id # cResults[k].user.id
    /\ \A n \in 1..(Len(cDone) - 1) :
          LET j == cDone[n]
              k == cDone[n + 1]
              i == cCalls[j].id
          IN  (/\ IsUpdateOf(j, i) /\ IsUpdateOf(k, i)
               /\ cResults[j].kind = "user" /\ cResults[k].kind = "user")
                 => /\ \A f \in DOMAIN cCalls[k].upd :
                          cResults[k].user[f] = cCalls[k].upd[f]
                    /\ \A f \in DOMAIN cCalls[j].upd \ DOMAIN cCalls[k].upd :
                          cResults[k].user[f] = cCalls[j].upd[f]
                    /\ n + 1 = Len(cDone) => DbFindById(cUsers, cNextId, i).result = cResults[k]

\* two creates and two updates of user 1 were pending together and settled
\* in the reverse of their start order
C2_Witness ==
    /\ Len(cCalls) >= 3
    /\ \E a, b \in 1..Len(cCalls), m, n \in 1..Len(cDone) :
          /\ a < b /\ n < m
          /\ cDone[m] = a /\ cDone[n] = b
          /\ IsUpdateOf(a, 1) /\ IsUpdateOf(b, 1)
          /\ DOMAIN cCalls[a].upd # DOMAIN cCalls[b].upd
          /\ cResults[a].kind = "user" /\ cResults[b].kind = "user"
          /\ cResults[a].user.name = "Bob"
          /\ cResults[a].user.email = <<"@">>

----------------------------------------------------------------------------
(* Claims about DatabaseConnection (SpecSingleton)                         *)

\* C3: at most one DatabaseConnection exists: across getInstance and close
\* calls, every getInstance call returns the same object as every other.
C3_OneInstance ==
    /\ Cardinality(handedOut) <= 1
    /\ Len(connStrings) <= 1

\* a step of the property below
C9_GetInstanceStep ==
    LET arg == sCall'.arg
    IN  /\ (sCall'.op = "getInstance" /\ instance = 0 /\ (~arg.given \/ arg.str = << >>))
              => /\ sResult' = SRequired
                 /\ instance' = 0
                 /\ connStrings' = connStrings
        /\ (sCall'.op = "getInstance" /\ instance # 0)
              => /\ sResult' = SReturned(instance)
                 /\ instance' = instance
                 /\ connStrings' = connStrings

\* C9: getInstance with no or an empty connection string while no instance
\* exists throws 'Connection string required for first initialization' and
\* leaves the static instance null; while an instance exists it returns that
\* instance whatever the argument, and constructs no new connection.
C9_GetInstance == [][C9_GetInstanceStep]_vars

\* getInstance('q') returned the instance connected with 'p'
C9_Witness ==
    /\ sCall.op = "getInstance"
    /\ sCall.arg = Arg(TRUE, <<"q">>)
    /\ instance # 0
    /\ sResult = SReturned(instance)
    /\ connStrings[instance] = <<"p">>

----------------------------------------------------------------------------
(* Claims about BankAccount (SpecBank)                                     *)

\* C4 as stated: withdraw with a negative amount throws an Error.
C4_NegativeThrows ==
    (bCall.op = "withdraw" /\ bCall.amount < 0) => bResult.kind = "error"

\* a step of the property below
C4_NegativeStep ==
    (bCall'.op = "withdraw" /\ bCall'.amount < 0)
        => /\ bResult' = BBool(FALSE)
           /\ balance' = balance

\* C4, amended: withdraw with a negative amount returns false and leaves the
\* balance as it was; it throws nothing.
C4_NegativeReturnsFalse == [][C4_NegativeStep]_vars

\* a negative withdrawal from an account in credit returned false
C4_Witness ==
    /\ bCall.op = "withdraw"
    /\ bCall.amount < 0
    /\ bResult = BBool(FALSE)
    /\ balance > 0

\* a step of the property below
C5_WithdrawStep ==
    /\ (bCall'.op = "withdraw" /\ bCall'.amount > balance)
          => /\ bResult' = BBool(FALSE)
             /\ balance' = balance
    /\ (bCall'.op = "withdraw" /\ 0 < bCall'.amount /\ bCall'.amount <= balance)
          => /\ bResult' = BBool(TRUE)
             /\ balance' = balance - bCall'.amount

\* C5: withdraw(amount) with amount greater than the balance returns false
\* and leaves the balance unchanged; with 0 < amount <= balance it returns
\* true and reduces the balance by exactly amount.
C5_Withdraw == [][C5_WithdrawStep]_vars

\* more than the balance of an account in credit was asked for and refused
C5_Witness ==
    /\ bCall.op = "withdraw"
    /\ bCall.amount > balance
    /\ balance > 0
    /\ bResult = BBool(FALSE)

----------------------------------------------------------------------------
(* Claims about NewsAgency (SpecObserver)                                  *)

Subscribed(obs) == {obs[k] : k \in 1..Len(obs)}

\* the distinct observers of obs, each at its first place
FirstPlaces(obs) ==
    LET firsts == {k \in 1..Len(obs) : \A j \in 1..(k - 1) : obs[j] # obs[k]}
        RECURSIVE Take(_)
        Take(k) == IF k > Len(obs) THEN << >>
                   ELSE IF k \in firsts THEN <<obs[k]>> \o Take(k + 1)
                   ELSE Take(k + 1)
    IN  Take(1)

\* a step of the property below
C10_SetNewsStep ==
    oCall'.op = "setNews" =>
        /\ news' = oCall'.news
        /\ LET Was(o) == o \in Subscribed(observers)
           IN  SelectSeq(notified', Was) = FirstPlaces(observers)

\* C10: setNews(n) stores n and calls update(n) exactly once on every
\* observer subscribed at the time of the call, in subscription order, also
\* when an observer's update subscribes or unsubscribes observers meanwhile.
C10_NotifyAll == [][C10_SetNewsStep]_vars

\* a step of the property below; of the notifications only those in which no
\* observer's update subscribes or unsubscribes anyone are looked at
C11_UnsubscribeStep ==
    /\ (oCall'.op \in {"setNews", "notify"} /\ oCall'.react = NoReact) =>
           \A k \in 1..Len(notified') : notified'[k] \notin removed
    /\ (oCall'.op = "unsubscribe" /\ oCall'.observer \notin Subscribed(observers)) =>
           /\ observers' = observers
           /\ news' = news

\* C11: after unsubscribe(o) has returned, no later setNews or notify calls
\* o.update until o is subscribed again, whatever subscribe and unsubscribe
\* calls came before; unsubscribing an observer that is not subscribed
\* changes nothing.
C11_Unsubscribed == [][C11_UnsubscribeStep]_vars

----------------------------------------------------------------------------
(* Claims about ShoppingCart (SpecCart)                                    *)

RECURSIVE SumSeq(_)
SumSeq(ps) == IF ps = << >> THEN 0 ELSE Head(ps) + SumSeq(Tail(ps))

\* the prices of the items added since the last checkout that returned
AddedSince == SubSeq(added, paidUpTo + 1, Len(added))

\* a step of the property below
C12_CheckoutStep ==
    (cartCall'.op = "checkout" /\ paymentStrategy # "null") =>
        /\ payments' = <<Payment(paymentStrategy, SumSeq(AddedSince))>>
        /\ cartResult' = CVoid
        /\ GetTotalOp(items') = 0
        /\ items' = << >>

\* C12: checkout with a strategy set calls pay exactly once, on the strategy
\* set last, with the sum of the prices of the items added since the previous
\* checkout that succeeded, and empties the cart (getTotal is 0); nothing is
\* charged twice: what was ever paid plus what the cart still holds is what
\* was ever added.
C12_PaidOnce ==
    /\ [](everPaid + GetTotalOp(items) = SumSeq(added))
    /\ [][C12_CheckoutStep]_vars

\* a second checkout has charged for an item added after the first one
C12_Witness ==
    /\ cartCall.op = "checkout"
    /\ payments # << >>
    /\ payments[1].amount > 0
    /\ everPaid > payments[1].amount
    /\ items = << >>

\* a step of the property below
C13_NoStrategyStep ==
    /\ (cartCall'.op = "checkout" /\ paymentStrategy = "null") =>
           /\ cartResult' = CThrow("Payment strategy not set")
           /\ payments' = << >>
           /\ items' = items
           /\ GetTotalOp(items') = GetTotalOp(items)
    /\ (cartCall'.op = "checkout" /\ paymentStrategy # "null" /\ paidUpTo = 0) =>
           Charged(payments') = SumSeq(added)

\* C13: checkout before any setPaymentStrategy throws 'Payment strategy not
\* set', calls no strategy and leaves items and getTotal as they were: as
\* long as no strategy is set the cart holds every item ever added, and the
\* first checkout with a strategy pays for all of them.
C13_NoStrategy ==
    /\ [](paymentStrategy = "null" =>
            /\ Len(items) = Len(added)
            /\ \A k \in 1..Len(items) : items[k].price = added[k])
    /\ [][C13_NoStrategyStep]_vars

\* checkout has thrown on a cart that holds items
C13_Witness ==
    /\ cartCall.op = "checkout"
    /\ cartResult = CThrow("Payment strategy not set")
    /\ GetTotalOp(items) > 0

----------------------------------------------------------------------------
(* Claims about fetchData, fetchMultiple, fetchSequential (SpecAsync)      *)

\* a fetchData promise is pending with its timer armed, or its timer has
\* fired and it is fulfilled with the data or rejected with the error
FetchOk(p) ==
    \/ p = FetchPromise("pending", "", "", "armed")
    \/ p = FetchPromise("fulfilled", DataFetched, "", "fired")
    \/ p = FetchPromise("rejected", "", FailedToFetch, "fired")

\* every promise of fs starts pending and stays as it is once settled
SettledForGood(fs, gs) ==
    /\ Len(gs) >= Len(fs)
    /\ \A k \in 1..Len(fs) : fs[k].state # "pending" => gs[k] = fs[k]
    /\ \A k \in (Len(fs) + 1)..Len(gs) : gs[k].state = "pending"

\* C14: the promise fetchData returns starts pending, settles exactly once
\* when its timer fires, fulfilled with 'Data fetched successfully' or
\* rejected with Error('Failed to fetch data'), never changes after settling,
\* and always eventually settles.
C14_SingleShot ==
    /\ [](\A k \in 1..Len(fetches) : FetchOk(fetches[k]))
    /\ [](\A k \in 1..Len(multiFetches) : FetchOk(multiFetches[k]))
    /\ [](\A k \in 1..Len(seqFetches) : FetchOk(seqFetches[k]))
    /\ [][/\ SettledForGood(fetches, fetches')
          /\ SettledForGood(multiFetches, multiFetches')
          /\ SettledForGood(seqFetches, seqFetches')]_vars
    /\ \A k \in 1..MaxFetches :
          (Len(fetches) >= k) ~> (Len(fetches) >= k /\ fetches[k].state # "pending")
    /\ \A k \in 1..3 :
          (Len(multiFetches) >= k)
              ~> (Len(multiFetches) >= k /\ multiFetches[k].state # "pending")
    /\ \A k \in 1..3 :
          (Len(seqFetches) >= k)
              ~> (Len(seqFetches) >= k /\ seqFetches[k].state # "pending")

\* of two direct calls one has fulfilled and the other has rejected
C14_Witness ==
    /\ Len(fetches) >= 2
    /\ fetches[1].state = "fulfilled"
    /\ fetches[2].state = "rejected"

States(fs) == [k \in 1..Len(fs) |-> fs[k].state]

Values(fs) == [k \in 1..Len(fs) |-> fs[k].value]

\* a step of the property below
C15_StartStep ==
    (multiple.state = "none" /\ multiple'.state # "none") =>
        /\ multiple'.state = "pending"
        /\ States(multiFetches') = <<"pending", "pending", "pending">>

\* C15: fetchMultiple starts its three fetchData calls before any of them
\* settles, fulfils with the three results in call order exactly when all
\* three have fulfilled, and is rejected as soon as one of them is.
C15_AllOrNothing ==
    /\ [](multiple.state # "none" =>
            /\ Len(multiFetches) = 3
            /\ multiple.state = "fulfilled"
                 <=> States(multiFetches) = <<"fulfilled", "fulfilled", "fulfilled">>
            /\ multiple.state = "fulfilled" => multiple.values = Values(multiFetches)
            /\ multiple.state = "rejected"
                 <=> \E k \in 1..3 : multiFetches[k].state = "rejected"
            /\ multiple.state = "rejected" => multiple.reason = FailedToFetch)
    /\ [][C15_StartStep]_vars

\* fetchMultiple is rejected while one of its calls is still pending
C15_Witness ==
    /\ multiple.state = "rejected"
    /\ \E k \in 1..3 : multiFetches[k].state = "pending"
    /\ \E k \in 1..3 : multiFetches[k].state = "fulfilled"

\* C16: fetchSequential has at most one fetchData call pending at any time,
\* starts call i+1 only after call i has fulfilled, fulfils with the results
\* in call order, and after the first rejected call is rejected with that
\* call's error and starts no further call.
C16_OneByOne ==
    /\ Len(seqFetches) <= 3
    /\ Cardinality({k \in 1..Len(seqFetches) : seqFetches[k].state = "pending"}) <= 1
    /\ \A k \in 2..Len(seqFetches) : seqFetches[k - 1].state = "fulfilled"
    /\ sequential.state = "fulfilled" <=>
           States(seqFetches) = <<"fulfilled", "fulfilled", "fulfilled">>
    /\ sequential.state = "fulfilled" => sequential.results = Values(seqFetches)
    /\ \A k \in 1..Len(seqFetches) :
           seqFetches[k].state = "rejected" =>
               /\ sequential.state = "rejected"
               /\ sequential.reason = seqFetches[k].reason
               /\ Len(seqFetches) = k
    /\ sequential.state = "rejected" =>
           seqFetches[Len(seqFetches)].state = "rejected"

\* the second call was rejected after the first had fulfilled
C16_Witness ==
    /\ sequential.state = "rejected"
    /\ Len(seqFetches) = 2
    /\ sequential.results = <<DataFetched>>

----------------------------------------------------------------------------
(* Claims about fetchWithRetry (SpecRetryFair)                             *)

RetryDone(f) == f.pc \in {"returned", "thrown"}

\* n failed attempts in a row
Failures(n) == [k \in 1..n |-> "error"]

\* what C17 says of one call
RetryOk(f) ==
    /\ f.maxRetries >= 1 =>
          /\ f.attempts <= f.maxRetries
          /\ f.pc = "returned" =>
                /\ f.outcomes = Append(Failures(f.attempts - 1), "ok")
                /\ f.response = f.attempts
          /\ Len(f.waits) = IF f.pc = "waiting" THEN f.attempts ELSE f.attempts - 1
          /\ \A k \in 1..Len(f.waits) : f.waits[k] > 0
          /\ f.pc = "thrown" =>
                /\ f.outcomes = Failures(f.maxRetries)
                /\ f.thrown = "fetch error"
                /\ f.error = f.maxRetries
    /\ f.thrown = "Max retries exceeded" => f.maxRetries <= 0

----------------------------------------------------------------------------
(* Claims about processWithLimit (SpecLimit)                               *)

PendingCalls == {k \in 1..Len(procCalls) : procCalls[k].state = "pending"}

\* the batch item k belongs to, counted from 0
BatchOf(k) == (k - 1) \div limited.limit

\* at most limit calls are pending, and a call of one batch has been made
\* only if every call of the batches before it has fulfilled
LimitedAndInTurn ==
    /\ Cardinality(PendingCalls) <= limited.limit
    /\ \A j, k \in 1..Len(procCalls) :
          (procCalls[k].starts > 0 /\ BatchOf(j) < BatchOf(k)) =>
              procCalls[j].state = "fulfilled"

\* the array returned holds the results in the order of items
ResultsInOrder ==
    limited.pc = "fulfilled" =>
        limited.results = [k \in 1..Len(limited.items) |-> ResultOf[limited.items[k]]]

----------------------------------------------------------------------------
(* Claims about createCounter (SpecCounter)                                *)

\* what counter c returns when called next
NextValue(cs, c) == CounterOp(cs, c).result

\* a step of the property below
C19_CounterStep ==
    ctrCall'.op = "counter" =>
        LET c == ctrCall'.counter
        IN  /\ ctrResult' = ctrCalls'[c]
            /\ \A k \in 1..Len(counters) :
                  k # c => NextValue(counters', k) = NextValue(counters, k)

\* C19: the n-th call of a counter returns n, and calling one counter never
\* changes the value any other counter, created by another createCounter
\* call, returns.
C19_Independent == [][C19_CounterStep]_vars

\* the first call of the second counter returned 1 after two calls of the first
C19_Witness ==
    /\ ctrCall = CtrCall("counter", 2)
    /\ ctrResult = 1
    /\ counters[1] = 2

----------------------------------------------------------------------------
(* Claims about the Express user store (SpecApp)                           *)

\* the stored users whose id equals the parsed parameter
Matching(us, idParam) ==
    {k \in 1..Len(us) : ~ParseInt(idParam).nan /\ us[k].id = ParseInt(idParam).n}

\* a step of the property below
C20_RequestStep ==
    /\ httpReq'.op = "postUser" =>
          LET body == httpReq'.body
              newUser == AppUser(Len(appUsers) + 1, body.name.str, body.email.str)
          IN  IF Missing(body.name) \/ Missing(body.email)
              THEN /\ httpRes'.status = 400
                   /\ appUsers' = appUsers
              ELSE /\ httpRes'.status = 201
                   /\ httpRes'.user = newUser
                   /\ appUsers' = Append(appUsers, newUser)
    /\ httpReq'.op = "getUserById" =>
          LET hits == Matching(appUsers, httpReq'.idParam)
          IN  /\ appUsers' = appUsers
              /\ IF hits = {}
                 THEN httpRes'.status = 404
                 ELSE /\ httpRes'.status = 200
                      /\ \E k \in hits : httpRes'.user = appUsers[k]

\* C20: POST /users with a missing or empty name or email responds 400 and
\* leaves users unchanged, otherwise appends exactly one user with id =
\* users.length + 1 and responds 201 with it; the stored ids are always
\* pairwise distinct; GET /users/:id responds with the stored user whose id
\* equals the parsed parameter, or 404 when there is none.
C20_Store ==
    /\ [](\A j, k \in 1..Len(appUsers) : appUsers[j].id = appUsers[k].id => j = k)
    /\ [][C20_RequestStep]_vars

\* a user that was posted has been fetched by its id
C20_Witness ==
    /\ httpReq.op = "getUserById"
    /\ httpRes.status = 200
    /\ httpRes.user.id > 2
    /\ httpRes.user.name = "Carol"

----------------------------------------------------------------------------
(* Claims about Stack (SpecStack)                                          *)

\* last-in first-out read off the calls alone: the items pushed and not yet
\* popped, the most recent first, with the number of pushes and the number of
\* pops that had an item to return
RECURSIVE Lifo(_, _)
Lifo(log, acc) ==
    IF log = << >> THEN acc
    ELSE LET c == Head(log)
             next ==
                 IF c.op = "push"
                 THEN [acc EXCEPT !.unpopped = <<c.item>> \o @, !.pushes = @ + 1]
                 ELSE IF acc.unpopped = << >> THEN acc
                 ELSE [acc EXCEPT !.unpopped = Tail(@), !.pops = @ + 1]
         IN  Lifo(Tail(log), next)

LifoOf(log) == Lifo(log, [unpopped |-> << >>, pushes |-> 0, pops |-> 0])

\* the array a stack of these unpopped items is held in: the oldest first
RECURSIVE Oldest(_)
Oldest(s) == IF s = << >> THEN << >> ELSE Append(Oldest(Tail(s)), Head(s))

\* a step of the property below
C21_StackStep ==
    LET before == LifoOf(stackLog)
        top == IF before.unpopped = << >> THEN Undefined ELSE Head(before.unpopped)
    IN  /\ stackCall'.op = "pop" =>
              /\ stackResult' = TValue(top)
              /\ stack' = Oldest(LifoOf(stackLog').unpopped)
              /\ before.unpopped = << >> => stack' = << >>
        /\ stackCall'.op = "peek" =>
              /\ stackResult' = TValue(top)
              /\ stack' = stack
        /\ stackCall'.op = "isEmpty" =>
              /\ stackResult' = TBool(before.pushes = before.pops)
              /\ stack' = stack
        /\ stackCall'.op = "push" =>
              stack' = Oldest(LifoOf(stackLog').unpopped)

\* C21: Stack is last-in first-out: after any sequence of push and pop calls
\* pop returns and removes the most recently pushed item not yet popped, peek
\* returns that item and changes nothing, pop and peek on an empty stack
\* return undefined and leave it empty, and isEmpty is true exactly when as
\* many pops returned an item as there were pushes.
C21_Lifo == [][C21_StackStep]_vars

\* after push(1), push(2), pop() a second pop has returned 1
C21_Witness ==
    /\ stackCall.op = "pop"
    /\ stackResult = TValue(Val(TRUE, 1))
    /\ stack = << >>
    /\ Len(stackLog) = 4
    /\ stackLog[2] = StackCall("push", Val(TRUE, 2))
    /\ stackLog[3].op = "pop"

====
